---- MODULE Spec2Model ----
(***************************************************************************)
(* The command bridge of the desktop shell: the Tauri command handlers of  *)
(* commands.rs build the argument vector of one engine command and hand it *)
(* to call_python_api (python_bridge.rs), which runs the engine through    *)
(* the launchers "python", "python3", "uv run python" in that order and    *)
(* turns the child's exit status and streams into Ok(json) or Err(text).   *)
(*                                                                         *)
(* Text is modelled in two ways.  Argument tokens are TLA+ strings, built  *)
(* with \o as format! builds them.  Streams and error messages are         *)
(* sequences of symbols: one symbol per decoded character of a stream, one *)
(* symbol per literal piece of a format string.                            *)
(***************************************************************************)
EXTENDS Integers, Sequences, FiniteSets, TLC

\* ------------------------------------------------------------------ bounds
\* Longest stdout / stderr the environment's enumerated children print.
MaxStreamLen == 2

\* ----------------------------------------------------------- value domains
\* The calls that can be in flight.  Spec runs one caller ("c1").
Calls == {"c1", "c2"}
Sequential == {"c1"}

\* Option<T>: None is the empty sequence, Some(v) the one-element sequence.
None == <<>>
Some(v) == <<v>>

\* Handler parameters the shell passes in Spec.
Dates == {"2025-01-01"}
Granularities == {"month"}
ModelNames == {"opus"}
SessionIds == {"s-1"}
ProjectIds == {"p1"}
Names == {"n1"}
Descriptions == {"d1"}
OptOf(S) == {None} \cup {Some(v) : v \in S}

\* Handler parameters the shell passes in EncSpec: free-form values, with
\* values that begin with '-', that look like a flag, and that are shared by
\* several fields.
EncDates == {"2025-01-01", "2025-12-31"}
EncGranularities == {"month", "day"}
EncModelNames == {"opus", "--from"}
EncSessionIds == {"s-1", "-s"}
EncProjectIds == {"p1", "-weird-id"}
EncNames == {"x", "-n"}
EncDescriptions == {"x", "--name=x"}

\* Bytes a child writes: '1' = 49, ' ' = 32, 'n' = 110, 'X' = 88, and 255,
\* which is never part of a valid UTF-8 sequence.
SeqsUpTo(S, n) == UNION {[1..k -> S] : k \in 0..n}
Stdouts == SeqsUpTo({49, 32}, MaxStreamLen)
Stderrs == SeqsUpTo({88}, MaxStreamLen)

\* What a started child can end with: exit code, stdout bytes, stderr bytes.
Outputs ==
    {[code |-> 0, stdout |-> o, stderr |-> <<>>] : o \in Stdouts}
    \cup {[code |-> 1, stdout |-> <<>>, stderr |-> e] : e \in Stderrs}
    \cup {[code |-> 0, stdout |-> <<110>>, stderr |-> <<>>],
          [code |-> 0, stdout |-> <<49>>, stderr |-> <<88>>],
          [code |-> 2, stdout |-> <<49>>, stderr |-> <<88, 255>>]}

\* The children and the launch error of ConcSpec, where two calls run at
\* the same time.
ConcOutputs == {[code |-> 0, stdout |-> <<49>>, stderr |-> <<>>],
                [code |-> 0, stdout |-> <<49, 49>>, stderr |-> <<>>],
                [code |-> 0, stdout |-> <<110>>, stderr |-> <<>>],
                [code |-> 1, stdout |-> <<>>, stderr |-> <<88>>]}
ConcIoErrors == {"No such file or directory (os error 2)"}

\* Reasons for which the operating system refuses to create the process.
IoErrors == {"No such file or directory (os error 2)",
             "Permission denied (os error 13)"}

\* ------------------------------------------------------------ pure helpers
\* String::from_utf8_lossy on the bytes above: an ASCII byte is its
\* character, a byte that is not valid UTF-8 becomes U+FFFD.
Chr(b) ==
    CASE b = 49 -> "1"
      [] b = 32 -> " "
      [] b = 110 -> "n"
      [] b = 88 -> "X"
      [] OTHER -> "U+FFFD"

from_utf8_lossy(bytes) == [i \in 1..Len(bytes) |-> Chr(bytes[i])]

\* serde_json::from_str on the characters above.  The documents that can be
\* written with them are the numbers 1, 11, 111, ... with optional
\* surrounding whitespace; everything else is a syntax error.
JsonErr(msg, col) ==
    [ok |-> FALSE, err |-> <<msg, " at line 1 column ", ToString(col)>>]

JsonNumber(k) == [type |-> "Number", n |-> (10 ^ k - 1) \div 9]

from_str(s) ==
    LET n == Len(s)
        \* first index >= i that does not hold a space (n + 1 when none)
        SkipWs(i) == IF \E j \in i..n : s[j] # " "
                     THEN CHOOSE j \in i..n :
                              s[j] # " " /\ \A k \in i..(j - 1) : s[k] = " "
                     ELSE n + 1
        \* first index >= i that does not hold a digit (n + 1 when none)
        SkipDigits(i) == IF \E j \in i..n : s[j] # "1"
                         THEN CHOOSE j \in i..n :
                                  s[j] # "1" /\ \A k \in i..(j - 1) : s[k] = "1"
                         ELSE n + 1
        b == SkipWs(1)
    IN  IF b > n THEN JsonErr("EOF while parsing a value", n)
        ELSE IF s[b] = "1"
        THEN LET e == SkipDigits(b)
                 t == SkipWs(e)
             IN  IF t > n THEN [ok |-> TRUE, value |-> JsonNumber(e - b)]
                 ELSE JsonErr("trailing characters", t)
        ELSE IF s[b] = "n"
        THEN IF b = n THEN JsonErr("EOF while parsing a value", n)
             ELSE JsonErr("expected ident", b + 1)
        ELSE JsonErr("expected value", b)

\* ------------------------------------------------------------------- state
VARIABLES
    pc,          \* per call: "idle", "loop" (about to try a candidate),
                 \* "wait" (child running), "done" (result available)
    req,         \* per call: the handler and parameters the shell invoked
    args,        \* per call: the args slice given to call_python_api
    idx,         \* per call: position of the for loop in python_commands
    last_error,  \* per call: the local last_error
    child,       \* per call: the command line of the running child
    attempts,    \* per call: the launch attempts made so far, in order
    result       \* per call: the Result returned by call_python_api

vars == <<pc, req, args, idx, last_error, child, attempts, result>>

\* ------------------------------------------------------------ the bridge
\* Variants of the candidate list: the first two swapped; the second entry
\* repeated in place of the third.
python_commands_Swapped == << <<"python3">>, <<"python">>,
                              <<"uv", " ", "run", " ", "python">> >>

python_commands_Repeated == << <<"python">>, <<"python3">>, <<"python3">> >>

python_commands == << <<"python">>, <<"python3">>,
                      <<"uv", " ", "run", " ", "python">> >>

\* python_cmd.split_whitespace().collect()
cmd_parts(python_cmd) == SelectSeq(python_cmd, LAMBDA w : w # " ")

\* Variant: the parts after the program name are not passed on.
command_NoPrefix(python_cmd, a) ==
    [program |-> cmd_parts(python_cmd)[1],
     argv |-> <<"-m", "command_center.tauri_api">> \o a]

\* Command::new(cmd_parts[0]) .arg(cmd_parts[1..]) .arg("-m")
\* .arg("command_center.tauri_api") .args(args)
command(python_cmd, a) ==
    [program |-> cmd_parts(python_cmd)[1],
     argv |-> Tail(cmd_parts(python_cmd))
              \o <<"-m", "command_center.tauri_api">> \o a]

Ok(v) == [ok |-> TRUE, value |-> v]
Err(e) == [ok |-> FALSE, err |-> e]

\* Variant: any exit status counts as success.
success_Always(output) == TRUE

\* output.status.success()
success(output) == output.code = 0

\* format!("Python error ({}): {}", python_cmd, stderr)
FormatPythonError(python_cmd, stderr) ==
    <<"Python error (">> \o python_cmd \o <<"): ">> \o stderr

\* Variant: the message leaves the raw stdout out.
FormatJsonParseError_NoStdout(e, stdout) == <<"JSON parse error: ">> \o e

\* format!("JSON parse error: {} | stdout: {}", e, stdout)
FormatJsonParseError(e, stdout) ==
    <<"JSON parse error: ">> \o e \o <<" | stdout: ">> \o stdout

\* format!("Failed to execute {}: {}", python_cmd, e)
FormatFailedToExecute(python_cmd, e) ==
    <<"Failed to execute ">> \o python_cmd \o <<": ", e>>

Init ==
    /\ pc = [c \in Calls |-> "idle"]
    /\ req = [c \in Calls |-> None]
    /\ args = [c \in Calls |-> <<>>]
    /\ idx = [c \in Calls |-> 1]
    /\ last_error = [c \in Calls |-> <<>>]
    /\ child = [c \in Calls |-> None]
    /\ attempts = [c \in Calls |-> <<>>]
    /\ result = [c \in Calls |-> None]

\* Variant: a call starts at the candidate that last succeeded for another
\* call (a cached launcher affinity).
call_python_api_CachedAffinity(c, r, a) ==
    /\ pc[c] = "idle"
    /\ pc' = [pc EXCEPT ![c] = "loop"]
    /\ req' = [req EXCEPT ![c] = Some(r)]
    /\ args' = [args EXCEPT ![c] = a]
    /\ idx' = [idx EXCEPT ![c] =
                  IF \E d \in Calls \ {c} : result[d] # None /\ result[d][1].ok
                  THEN Len(attempts[CHOOSE d \in Calls \ {c} :
                                       result[d] # None /\ result[d][1].ok])
                  ELSE 1]
    /\ last_error' = [last_error EXCEPT ![c] = <<>>]
    /\ child' = [child EXCEPT ![c] = None]
    /\ attempts' = [attempts EXCEPT ![c] = <<>>]
    /\ result' = [result EXCEPT ![c] = None]

\* Entry of call_python_api: the locals of a fresh call.
call_python_api(c, r, a) ==
    /\ pc[c] = "idle"
    /\ pc' = [pc EXCEPT ![c] = "loop"]
    /\ req' = [req EXCEPT ![c] = Some(r)]
    /\ args' = [args EXCEPT ![c] = a]
    /\ idx' = [idx EXCEPT ![c] = 1]
    /\ last_error' = [last_error EXCEPT ![c] = <<>>]
    /\ child' = [child EXCEPT ![c] = None]
    /\ attempts' = [attempts EXCEPT ![c] = <<>>]
    /\ result' = [result EXCEPT ![c] = None]

\* Variant: the function returns Err at the first failure instead of
\* continuing with the next candidate.
Continue_ReturnsAtOnce(c, e, att) ==
    /\ last_error' = [last_error EXCEPT ![c] = e]
    /\ attempts' = [attempts EXCEPT ![c] = Append(@, att)]
    /\ idx' = [idx EXCEPT ![c] = @ + 1]
    /\ child' = [child EXCEPT ![c] = None]
    /\ pc' = [pc EXCEPT ![c] = "done"]
    /\ result' = [result EXCEPT ![c] = Some(Err(e))]
    /\ UNCHANGED <<req, args>>

\* Variant: the function returns the error held before this failure.
Continue_StaleError(c, e, att) ==
    /\ last_error' = [last_error EXCEPT ![c] = e]
    /\ attempts' = [attempts EXCEPT ![c] = Append(@, att)]
    /\ idx' = [idx EXCEPT ![c] = @ + 1]
    /\ child' = [child EXCEPT ![c] = None]
    /\ IF idx[c] = Len(python_commands)
       THEN /\ pc' = [pc EXCEPT ![c] = "done"]
            /\ result' = [result EXCEPT ![c] = Some(Err(last_error[c]))]
       ELSE /\ pc' = [pc EXCEPT ![c] = "loop"]
            /\ UNCHANGED result
    /\ UNCHANGED <<req, args>>

\* Variant: past the last candidate the function returns Ok(null).
Continue_OkNull(c, e, att) ==
    /\ last_error' = [last_error EXCEPT ![c] = e]
    /\ attempts' = [attempts EXCEPT ![c] = Append(@, att)]
    /\ idx' = [idx EXCEPT ![c] = @ + 1]
    /\ child' = [child EXCEPT ![c] = None]
    /\ IF idx[c] = Len(python_commands)
       THEN /\ pc' = [pc EXCEPT ![c] = "done"]
            /\ result' = [result EXCEPT ![c] = Some(Ok([type |-> "Null"]))]
       ELSE /\ pc' = [pc EXCEPT ![c] = "loop"]
            /\ UNCHANGED result
    /\ UNCHANGED <<req, args>>

\* Variant: every error is appended to the errors of the earlier candidates.
Continue_AllErrors(c, e, att) ==
    /\ last_error' = [last_error EXCEPT ![c] = @ \o e]
    /\ attempts' = [attempts EXCEPT ![c] = Append(@, att)]
    /\ idx' = [idx EXCEPT ![c] = @ + 1]
    /\ child' = [child EXCEPT ![c] = None]
    /\ IF idx[c] = Len(python_commands)
       THEN /\ pc' = [pc EXCEPT ![c] = "done"]
            /\ result' = [result EXCEPT ![c] = Some(Err(last_error[c] \o e))]
       ELSE /\ pc' = [pc EXCEPT ![c] = "loop"]
            /\ UNCHANGED result
    /\ UNCHANGED <<req, args>>

\* `last_error = ...; continue;` : the loop moves to the next candidate, and
\* past the last candidate the function returns Err(last_error).
Continue(c, e, att) ==
    /\ last_error' = [last_error EXCEPT ![c] = e]
    /\ attempts' = [attempts EXCEPT ![c] = Append(@, att)]
    /\ idx' = [idx EXCEPT ![c] = @ + 1]
    /\ child' = [child EXCEPT ![c] = None]
    /\ IF idx[c] = Len(python_commands)
       THEN /\ pc' = [pc EXCEPT ![c] = "done"]
            /\ result' = [result EXCEPT ![c] = Some(Err(e))]
       ELSE /\ pc' = [pc EXCEPT ![c] = "loop"]
            /\ UNCHANGED result
    /\ UNCHANGED <<req, args>>

\* Variant: only the first launch error of a call is kept.
SpawnFail_KeepFirst(c, e) ==
    /\ pc[c] = "loop"
    /\ LET python_cmd == python_commands[idx[c]]
       IN  Continue(c,
                    IF last_error[c] = <<>>
                    THEN FormatFailedToExecute(python_cmd, e)
                    ELSE last_error[c],
                    [python_cmd |-> python_cmd,
                     command |-> command(python_cmd, args[c]),
                     started |-> FALSE, ioerr |-> e])

\* Variant: launch errors are appended to the errors already held.
SpawnFail_Accumulate(c, e) ==
    /\ pc[c] = "loop"
    /\ LET python_cmd == python_commands[idx[c]]
       IN  Continue(c,
                    last_error[c] \o FormatFailedToExecute(python_cmd, e),
                    [python_cmd |-> python_cmd,
                     command |-> command(python_cmd, args[c]),
                     started |-> FALSE, ioerr |-> e])

\* command.output() returns Err(e): the process could not be created.
SpawnFail(c, e) ==
    /\ pc[c] = "loop"
    /\ LET python_cmd == python_commands[idx[c]]
       IN  Continue(c,
                    FormatFailedToExecute(python_cmd, e),
                    [python_cmd |-> python_cmd,
                     command |-> command(python_cmd, args[c]),
                     started |-> FALSE, ioerr |-> e])

\* command.output() created the process and now waits for it to exit.
SpawnOk(c) ==
    /\ pc[c] = "loop"
    /\ pc' = [pc EXCEPT ![c] = "wait"]
    /\ child' = [child EXCEPT
                   ![c] = Some(command(python_commands[idx[c]], args[c]))]
    /\ UNCHANGED <<req, args, idx, last_error, attempts, result>>

\* Variant: the raw stdout text is returned instead of the parsed value.
ChildExit_RawStdout(c, output) ==
    /\ pc[c] = "wait"
    /\ LET python_cmd == python_commands[idx[c]]
           att == [python_cmd |-> python_cmd, command |-> child[c][1],
                   started |-> TRUE, output |-> output]
           stderr == from_utf8_lossy(output.stderr)
           stdout == from_utf8_lossy(output.stdout)
           parsed == from_str(stdout)
       IN  IF ~success(output)
           THEN Continue(c, FormatPythonError(python_cmd, stderr), att)
           ELSE IF parsed.ok
           THEN /\ result' = [result EXCEPT ![c] = Some(Ok(stdout))]
                /\ pc' = [pc EXCEPT ![c] = "done"]
                /\ attempts' = [attempts EXCEPT ![c] = Append(@, att)]
                /\ child' = [child EXCEPT ![c] = None]
                /\ UNCHANGED <<req, args, idx, last_error>>
           ELSE Continue(c, FormatJsonParseError(parsed.err, stdout), att)

\* The child exits; command.output() returns Ok(output) and the match arm
\* classifies it.
ChildExit(c, output) ==
    /\ pc[c] = "wait"
    /\ LET python_cmd == python_commands[idx[c]]
           att == [python_cmd |-> python_cmd, command |-> child[c][1],
                   started |-> TRUE, output |-> output]
           stderr == from_utf8_lossy(output.stderr)
           stdout == from_utf8_lossy(output.stdout)
           parsed == from_str(stdout)
       IN  IF ~success(output)
           THEN Continue(c, FormatPythonError(python_cmd, stderr), att)
           ELSE IF parsed.ok
           THEN /\ result' = [result EXCEPT ![c] = Some(Ok(parsed.value))]
                /\ pc' = [pc EXCEPT ![c] = "done"]
                /\ attempts' = [attempts EXCEPT ![c] = Append(@, att)]
                /\ child' = [child EXCEPT ![c] = None]
                /\ UNCHANGED <<req, args, idx, last_error>>
           ELSE Continue(c, FormatJsonParseError(parsed.err, stdout), att)

\* The handler hands the Result to the shell; the call's locals are gone.
Return(c) ==
    /\ pc[c] = "done"
    /\ pc' = [pc EXCEPT ![c] = "idle"]
    /\ req' = [req EXCEPT ![c] = None]
    /\ args' = [args EXCEPT ![c] = <<>>]
    /\ idx' = [idx EXCEPT ![c] = 1]
    /\ last_error' = [last_error EXCEPT ![c] = <<>>]
    /\ child' = [child EXCEPT ![c] = None]
    /\ attempts' = [attempts EXCEPT ![c] = <<>>]
    /\ result' = [result EXCEPT ![c] = None]

\* ------------------------------------------------------- command handlers
\* Variant: the flag and the value are pushed as two tokens.
OptArg_Split(flag, opt) == IF opt = None THEN <<>> ELSE <<flag, opt[1]>>

OptArg(flag, opt) == IF opt = None THEN <<>> ELSE <<flag \o opt[1]>>

\* Variant: refresh is rendered as "true" / "false".
get_dashboard_bundle_BoolText(c, from, to, refresh, granularity, project_id) ==
    LET refresh_str == IF refresh THEN "true" ELSE "false"
    IN  call_python_api(c,
            [op |-> "get_dashboard_bundle", from |-> from, to |-> to,
             refresh |-> refresh, granularity |-> granularity,
             project_id |-> project_id],
            <<"dashboard", "--from", from, "--to", to,
              "--refresh", refresh_str, "--granularity", granularity>>
            \o OptArg("--project-id=", project_id))

get_dashboard_bundle(c, from, to, refresh, granularity, project_id) ==
    LET refresh_str == IF refresh THEN "1" ELSE "0"
    IN  call_python_api(c,
            [op |-> "get_dashboard_bundle", from |-> from, to |-> to,
             refresh |-> refresh, granularity |-> granularity,
             project_id |-> project_id],
            <<"dashboard", "--from", from, "--to", to,
              "--refresh", refresh_str, "--granularity", granularity>>
            \o OptArg("--project-id=", project_id))

\* Variant: the required date is pushed as one joined token.
get_day_details_Joined(c, date, project_id) ==
    call_python_api(c,
        [op |-> "get_day_details", date |-> date, project_id |-> project_id],
        <<"day", "--date=" \o date>> \o OptArg("--project-id=", project_id))

get_day_details(c, date, project_id) ==
    call_python_api(c,
        [op |-> "get_day_details", date |-> date, project_id |-> project_id],
        <<"day", "--date", date>> \o OptArg("--project-id=", project_id))

get_model_details(c, model, from, to, project_id) ==
    call_python_api(c,
        [op |-> "get_model_details", model |-> model, from |-> from,
         to |-> to, project_id |-> project_id],
        <<"model", "--model", model, "--from", from, "--to", to>>
        \o OptArg("--project-id=", project_id))

get_session_details(c, session_id, project_id) ==
    call_python_api(c,
        [op |-> "get_session_details", session_id |-> session_id,
         project_id |-> project_id],
        <<"session", "--id", session_id>>
        \o OptArg("--project-id=", project_id))

get_limit_resets(c, from, to) ==
    call_python_api(c,
        [op |-> "get_limit_resets", from |-> from, to |-> to],
        <<"limits", "--from", from, "--to", to>>)

export_png_report(c, from, to) ==
    call_python_api(c,
        [op |-> "export_png_report", from |-> from, to |-> to],
        <<"export-png", "--from", from, "--to", to>>)

\* Variant: the catalog name is sent as the keyword.
get_projects_CatalogName(c) ==
    call_python_api(c, [op |-> "get_projects"], <<"list-projects">>)

get_projects(c) ==
    call_python_api(c, [op |-> "get_projects"], <<"projects">>)

\* Variant: the required project_id is pushed as flag and value.
update_project_TwoTokens(c, project_id, name, description, visible) ==
    call_python_api(c,
        [op |-> "update_project", project_id |-> project_id, name |-> name,
         description |-> description, visible |-> visible],
        <<"update-project", "--project-id", project_id>>
        \o OptArg("--name=", name)
        \o OptArg("--description=", description)
        \o (IF visible = None THEN <<>>
            ELSE <<"--visible=" \o (IF visible[1] THEN "1" ELSE "0")>>))

\* Variant: the description is pushed under the flag of the name.
update_project_NameFlagTwice(c, project_id, name, description, visible) ==
    call_python_api(c,
        [op |-> "update_project", project_id |-> project_id, name |-> name,
         description |-> description, visible |-> visible],
        <<"update-project", "--project-id=" \o project_id>>
        \o OptArg("--name=", name)
        \o OptArg("--name=", description)
        \o (IF visible = None THEN <<>>
            ELSE <<"--visible=" \o (IF visible[1] THEN "1" ELSE "0")>>))

update_project(c, project_id, name, description, visible) ==
    call_python_api(c,
        [op |-> "update_project", project_id |-> project_id, name |-> name,
         description |-> description, visible |-> visible],
        <<"update-project", "--project-id=" \o project_id>>
        \o OptArg("--name=", name)
        \o OptArg("--description=", description)
        \o (IF visible = None THEN <<>>
            ELSE <<"--visible=" \o (IF visible[1] THEN "1" ELSE "0")>>))

\* ----------------------------------------------------------- specification
Next ==
    \E c \in Sequential :
        \/ \E from \in Dates, to \in Dates, refresh \in BOOLEAN,
              granularity \in Granularities, project_id \in OptOf(ProjectIds) :
               get_dashboard_bundle(c, from, to, refresh, granularity,
                                    project_id)
        \/ \E date \in Dates, project_id \in OptOf(ProjectIds) :
               get_day_details(c, date, project_id)
        \/ \E model \in ModelNames, from \in Dates, to \in Dates,
              project_id \in OptOf(ProjectIds) :
               get_model_details(c, model, from, to, project_id)
        \/ \E session_id \in SessionIds, project_id \in OptOf(ProjectIds) :
               get_session_details(c, session_id, project_id)
        \/ \E from \in Dates, to \in Dates : get_limit_resets(c, from, to)
        \/ \E from \in Dates, to \in Dates : export_png_report(c, from, to)
        \/ get_projects(c)
        \/ \E project_id \in ProjectIds, name \in OptOf(Names),
              description \in OptOf(Descriptions), visible \in OptOf(BOOLEAN) :
               update_project(c, project_id, name, description, visible)
        \/ \E e \in IoErrors : SpawnFail(c, e)
        \/ SpawnOk(c)
        \/ \E output \in Outputs : ChildExit(c, output)
        \/ Return(c)

Spec == Init /\ [][Next]_vars

\* The encoder under free-form parameters: two callers invoke the handlers
\* with the Enc* values; the engine runs through the first candidate and
\* prints the document 1.
EncNext ==
    \E c \in Calls :
        \/ \E from \in EncDates, to \in EncDates, refresh \in BOOLEAN,
              granularity \in EncGranularities,
              project_id \in OptOf(EncProjectIds) :
               get_dashboard_bundle(c, from, to, refresh, granularity,
                                    project_id)
        \/ \E date \in EncDates, project_id \in OptOf(EncProjectIds) :
               get_day_details(c, date, project_id)
        \/ \E model \in EncModelNames, from \in EncDates, to \in EncDates,
              project_id \in OptOf(EncProjectIds) :
               get_model_details(c, model, from, to, project_id)
        \/ \E session_id \in EncSessionIds,
              project_id \in OptOf(EncProjectIds) :
               get_session_details(c, session_id, project_id)
        \/ \E from \in EncDates, to \in EncDates :
               get_limit_resets(c, from, to)
        \/ \E from \in EncDates, to \in EncDates :
               export_png_report(c, from, to)
        \/ get_projects(c)
        \/ \E project_id \in EncProjectIds, name \in OptOf(EncNames),
              description \in OptOf(EncDescriptions),
              visible \in OptOf(BOOLEAN) :
               update_project(c, project_id, name, description, visible)
        \/ SpawnOk(c)
        \/ ChildExit(c, [code |-> 0, stdout |-> <<49>>, stderr |-> <<>>])
        \/ Return(c)

EncSpec == Init /\ [][EncNext]_vars

\* Two callers at the same time: the async handlers of both calls interleave
\* at the launches and exits of their children.
ConcNext ==
    \E c \in Calls :
        \/ \E date \in Dates, project_id \in OptOf(ProjectIds) :
               get_day_details(c, date, project_id)
        \/ \E from \in Dates, to \in Dates : get_limit_resets(c, from, to)
        \/ get_projects(c)
        \/ \E e \in ConcIoErrors : SpawnFail(c, e)
        \/ SpawnOk(c)
        \/ \E output \in ConcOutputs : ChildExit(c, output)
        \/ Return(c)

ConcSpec == Init /\ [][ConcNext]_vars

\* The thread of a call runs: a call in the loop makes its next attempt.  A
\* started child eventually exits (the assumption under which a call is
\* expected to return).
Fairness ==
    \A c \in Sequential :
        /\ WF_vars(SpawnOk(c) \/ \E e \in IoErrors : SpawnFail(c, e))
        /\ WF_vars(\E output \in Outputs : ChildExit(c, output))

LiveSpec == Spec /\ Fairness

\* ------------------------------------------------------------- vocabulary
TypeOK ==
    /\ pc \in [Calls -> {"idle", "loop", "wait", "done"}]
    /\ \A c \in Calls : idx[c] \in 1..(Len(python_commands) + 1)

\* s occurs in m as a contiguous run of symbols.
IsSub(s, m) ==
    \E i \in 0..(Len(m) - Len(s)) : SubSeq(m, i + 1, i + Len(s)) = s

StartsWith(m, s) == Len(s) <= Len(m) /\ SubSeq(m, 1, Len(s)) = s

\* The attempt started a process that exited 0 and printed valid JSON.
Succeeded(att) ==
    /\ att.started
    /\ att.output.code = 0
    /\ from_str(from_utf8_lossy(att.output.stdout)).ok

ExitedNonZero(att) == att.started /\ att.output.code # 0

PrintedInvalid(att) ==
    /\ att.started
    /\ att.output.code = 0
    /\ ~from_str(from_utf8_lossy(att.output.stdout)).ok

\* Processes the call has started so far, the running one included.
StartedCount(c) ==
    Cardinality({i \in DOMAIN attempts[c] : attempts[c][i].started})
    + (IF pc[c] = "wait" THEN 1 ELSE 0)

\* The call goes on to the candidate after the i-th.
GoesOnAfter(c, i) ==
    \/ Len(attempts[c]) > i
    \/ pc[c] \in {"loop", "wait"} /\ idx[c] = i + 1

IsErr(c) == result[c] # None /\ ~result[c][1].ok
IsOk(c) == result[c] # None /\ result[c][1].ok

C6_SuccessReturnsParsedValue ==
    \A c \in Calls :
        LET a == attempts[c]
        IN  /\ \A i \in DOMAIN a :
                   Succeeded(a[i]) =>
                       /\ pc[c] = "done"
                       /\ result[c] = Some(Ok(
                              from_str(from_utf8_lossy(a[i].output.stdout)).value))
                       /\ a[i].output.stdout \in {<<49>>, <<32, 49>>, <<49, 32>>}
                              => result[c][1].value.n = 1
                       /\ a[i].output.stdout = <<49, 49>>
                              => result[c][1].value.n = 11
            /\ pc[c] = "done" <=> result[c] # None
            /\ result[c] # None =>
                   \/ result[c][1].ok /\ DOMAIN result[c][1] = {"ok", "value"}
                   \/ ~result[c][1].ok /\ DOMAIN result[c][1] = {"ok", "err"}

\* The second candidate printed " 1" and the call returned the number 1.
C6_Witness ==
    \E c \in Calls :
        /\ IsOk(c)
        /\ Len(attempts[c]) = 2
        /\ attempts[c][2].output.stdout = <<32, 49>>

C8_AsStated ==
    \A c \in Calls :
        (/\ Len(attempts[c]) = 2
         /\ ~attempts[c][1].started
         /\ ~attempts[c][2].started
         /\ pc[c] = "wait")
            => /\ IsSub(<<"python", ": ", attempts[c][1].ioerr>>,
                        last_error[c])
               /\ IsSub(<<"python3", ": ", attempts[c][2].ioerr>>,
                        last_error[c])

\* C8 (amended): when the first two candidates fail to start and the third
\* starts, the engine runs through exactly the third candidate (program uv,
\* arguments run python -m command_center.tauri_api and the call's args), and
\* at that moment, and still when the third has succeeded, the call holds
\* only the error of the second candidate: the error of the first has been
\* overwritten.
C8_ThirdRunsSecondErrorKept ==
    \A c \in Calls :
        LET a == attempts[c]
        IN  (/\ Len(a) >= 2
             /\ ~a[1].started
             /\ ~a[2].started
             /\ pc[c] = "wait" \/ (Len(a) = 3 /\ Succeeded(a[3])))
                => /\ last_error[c] =
                          <<"Failed to execute ", "python3", ": ", a[2].ioerr>>
                   /\ ~IsSub(<<"python", ": ">>, last_error[c])
                   /\ LET ran == IF pc[c] = "wait" THEN child[c][1]
                                 ELSE a[3].command
                      IN  /\ ran.program = "uv"
                          /\ ran.argv = <<"run", "python", "-m",
                                          "command_center.tauri_api">>
                                        \o args[c]
                   /\ StartedCount(c) = 1

\* The third candidate is running after two launch failures of different
\* kinds.
C8_Witness ==
    \E c \in Calls :
        /\ pc[c] = "wait"
        /\ Len(attempts[c]) = 2
        /\ ~attempts[c][1].started
        /\ ~attempts[c][2].started
        /\ attempts[c][1].ioerr # attempts[c][2].ioerr

\* C9: within one call no launcher candidate is attempted more than once and
\* at most three launch attempts are made; provided every started child
\* exits, a call that has been entered eventually returns a result.
C9_NoRepeatAndTermination ==
    /\ [](\A c \in Calls :
              LET a == attempts[c]
                  tried == Len(a) + (IF pc[c] = "wait" THEN 1 ELSE 0)
              IN  /\ tried <= 3
                  /\ \A i, j \in DOMAIN a :
                         i # j => a[i].python_cmd # a[j].python_cmd
                  /\ pc[c] = "wait" =>
                         \A i \in DOMAIN a :
                             a[i].command # child[c][1])
    /\ \A c \in Calls : (pc[c] \in {"loop", "wait"}) ~> (pc[c] = "done")

\* A call returned after three attempts, each of which started a process.
C9_Witness ==
    \E c \in Calls :
        /\ pc[c] = "done"
        /\ Len(attempts[c]) = 3
        /\ \A i \in 1..3 : attempts[c][i].started

\* C10 (as stated): the first token of the encoded command is the catalog
\* name of the operation: dashboard, day, model, session, limit-resets,
\* png-export, list-projects, update-project.
CatalogName(op) ==
    CASE op = "get_dashboard_bundle" -> "dashboard"
      [] op = "get_day_details" -> "day"
      [] op = "get_model_details" -> "model"
      [] op = "get_session_details" -> "session"
      [] op = "get_limit_resets" -> "limit-resets"
      [] op = "export_png_report" -> "png-export"
      [] op = "get_projects" -> "list-projects"
      [] op = "update_project" -> "update-project"

C10_AsStated ==
    \A c \in Calls :
        req[c] # None => args[c][1] = CatalogName(req[c][1].op)

\* C10 (amended): the first token of the encoded command is the engine
\* keyword of the operation: dashboard, day, model, session, update-project
\* as in the catalog, and limits for limit-resets, export-png for png-export,
\* projects for list-projects.
EngineKeyword(op) ==
    CASE op = "get_dashboard_bundle" -> "dashboard"
      [] op = "get_day_details" -> "day"
      [] op = "get_model_details" -> "model"
      [] op = "get_session_details" -> "session"
      [] op = "get_limit_resets" -> "limits"
      [] op = "export_png_report" -> "export-png"
      [] op = "get_projects" -> "projects"
      [] op = "update_project" -> "update-project"

C10_FirstTokenIsEngineKeyword ==
    \A c \in Calls :
        req[c] # None =>
            /\ Len(args[c]) >= 1
            /\ args[c][1] = EngineKeyword(req[c][1].op)
            /\ pc[c] = "wait" =>
                   child[c][1].argv[Len(child[c][1].argv) - Len(args[c]) + 1]
                       = EngineKeyword(req[c][1].op)

\* The engine runs a limit-resets request.
C10_Witness ==
    \E c \in Calls :
        /\ req[c] # None
        /\ req[c][1].op = "get_limit_resets"
        /\ pc[c] = "wait"

\* ------------------------------------------------------- encoder vocabulary
\* Tokens the keyword and the required fields of an operation take up.
RequiredTokens(op) ==
    CASE op = "get_dashboard_bundle" -> 9
      [] op = "get_day_details" -> 3
      [] op = "get_model_details" -> 7
      [] op = "get_session_details" -> 3
      [] op = "get_limit_resets" -> 5
      [] op = "export_png_report" -> 5
      [] op = "get_projects" -> 1
      [] op = "update_project" -> 2

BoolText(opt) == IF opt = None THEN None
                 ELSE IF opt[1] THEN Some("1") ELSE Some("0")

\* The optional fields of a request in their documented order, each as
\* <<flag, Option of the value's text>>.
OptionalFields(r) ==
    IF r.op \in {"get_dashboard_bundle", "get_day_details",
                 "get_model_details", "get_session_details"}
    THEN << <<"--project-id", r.project_id>> >>
    ELSE IF r.op = "update_project"
    THEN << <<"--name", r.name>>, <<"--description", r.description>>,
            <<"--visible", BoolText(r.visible)>> >>
    ELSE <<>>

IsPresent(f) == f[2] # None

\* C11: every optional field that is present is encoded as exactly one token
\* --flag-name=value, in the documented order after the required tokens; an
\* absent optional field contributes no token; project_id is encoded as the
\* joined token --project-id=value wherever it is encoded that way, also for
\* a value that begins with '-'.
C11_OptionalFieldsJoined ==
    \A c \in Calls :
        req[c] # None =>
            LET r == req[c][1]
                a == args[c]
                base == RequiredTokens(r.op)
                present == SelectSeq(OptionalFields(r), IsPresent)
            IN  /\ Len(a) = base + Len(present)
                /\ \A i \in 1..Len(present) :
                       a[base + i] = present[i][1] \o "=" \o present[i][2][1]
                /\ "project_id" \in DOMAIN r =>
                       IF r.op = "update_project"
                       THEN a[2] = "--project-id=" \o r.project_id
                       ELSE \/ r.project_id = None
                            \/ a[Len(a)] = "--project-id=" \o r.project_id[1]
                /\ \A i \in 1..Len(a) :
                       a[i] \notin {"--project-id", "--name", "--description",
                                    "--visible"}

\* An update-project request with a name that begins with '-', no
\* description and visible = false; and a session request with a project id
\* that begins with '-'.
C11_Witness ==
    /\ \E c \in Calls :
           /\ req[c] # None
           /\ req[c][1].op = "update_project"
           /\ req[c][1].name = Some("-n")
           /\ req[c][1].description = None
           /\ req[c][1].visible = Some(FALSE)
    /\ \E c \in Calls :
           /\ req[c] # None
           /\ req[c][1].op = "get_session_details"
           /\ req[c][1].project_id = Some("-weird-id")

\* C12: a dashboard request encodes to exactly dashboard, --from, from, --to,
\* to, --refresh, "1" or "0", --granularity, granularity in that order,
\* followed by the token --project-id=value only when project_id is present
\* (nine tokens when it is absent).
C12_DashboardEncoding ==
    \A c \in Calls :
        (req[c] # None /\ req[c][1].op = "get_dashboard_bundle") =>
            LET r == req[c][1]
                a == args[c]
            IN  /\ SubSeq(a, 1, 9) =
                       <<"dashboard", "--from", r.from, "--to", r.to,
                         "--refresh", IF r.refresh THEN "1" ELSE "0",
                         "--granularity", r.granularity>>
                /\ r.project_id = None => Len(a) = 9
                /\ r.project_id # None =>
                       /\ Len(a) = 10
                       /\ a[10] = "--project-id=" \o r.project_id[1]
                /\ (/\ r.from = "2025-01-01"
                    /\ r.to = "2025-12-31"
                    /\ r.refresh
                    /\ r.granularity = "month"
                    /\ r.project_id = None)
                       => a = <<"dashboard", "--from", "2025-01-01", "--to",
                                "2025-12-31", "--refresh", "1",
                                "--granularity", "month">>

\* The scenario request: 2025-01-01 to 2025-12-31, refresh, by month, no
\* project.
C12_Witness ==
    \E c \in Calls :
        /\ req[c] # None
        /\ req[c][1] = [op |-> "get_dashboard_bundle", from |-> "2025-01-01",
                        to |-> "2025-12-31", refresh |-> TRUE,
                        granularity |-> "month", project_id |-> None]
        /\ pc[c] = "wait"

OnlyProjectId(c) ==
    /\ req[c] # None
    /\ req[c][1].op = "update_project"
    /\ req[c][1].name = None
    /\ req[c][1].description = None
    /\ req[c][1].visible = None

\* C13 (as stated): an update-project command with only project_id set has
\* exactly two tokens after the keyword.
C13_AsStated ==
    \A c \in Calls : OnlyProjectId(c) => Len(args[c]) - 1 = 2

\* C13 (amended): an update-project command with only project_id set has
\* exactly one token after the keyword, the joined token --project-id=<id>
\* (two tokens with the keyword).
C13_OnlyProjectIdOneToken ==
    \A c \in Calls :
        OnlyProjectId(c) =>
            /\ Len(args[c]) = 2
            /\ args[c] = <<"update-project",
                           "--project-id=" \o req[c][1].project_id>>
            /\ pc[c] = "wait" =>
                   child[c][1].argv = <<"-m", "command_center.tauri_api",
                                        "update-project",
                                        "--project-id="
                                            \o req[c][1].project_id>>

\* The engine runs an update-project command that only names the project
\* "-weird-id".
C13_Witness ==
    \E c \in Calls :
        /\ OnlyProjectId(c)
        /\ req[c][1].project_id = "-weird-id"
        /\ pc[c] = "wait"

\* The required fields of a request in their documented order, each as
\* <<flag, the value's text>>.
RequiredFields(r) ==
    CASE r.op = "get_dashboard_bundle" ->
             << <<"--from", r.from>>, <<"--to", r.to>>,
                <<"--refresh", IF r.refresh THEN "1" ELSE "0">>,
                <<"--granularity", r.granularity>> >>
      [] r.op = "get_day_details" -> << <<"--date", r.date>> >>
      [] r.op = "get_model_details" ->
             << <<"--model", r.model>>, <<"--from", r.from>>,
                <<"--to", r.to>> >>
      [] r.op = "get_session_details" -> << <<"--id", r.session_id>> >>
      [] r.op = "get_limit_resets" ->
             << <<"--from", r.from>>, <<"--to", r.to>> >>
      [] r.op = "export_png_report" ->
             << <<"--from", r.from>>, <<"--to", r.to>> >>
      [] r.op = "get_projects" -> <<>>
      [] r.op = "update_project" -> << <<"--project-id", r.project_id>> >>

\* C14 (as stated): every required field of every operation, project_id of
\* update-project included, is encoded as the flag token followed by the
\* value token.
C14_AsStated ==
    \A c \in Calls :
        req[c] # None =>
            LET f == RequiredFields(req[c][1])
            IN  \A i \in 1..Len(f) :
                    /\ args[c][2 * i] = f[i][1]
                    /\ args[c][2 * i + 1] = f[i][2]

\* C14 (amended): every required field is encoded as two consecutive tokens,
\* the flag token followed by the value token (booleans as "1" / "0"), except
\* project_id of update-project, which is encoded as the single joined token
\* --project-id=<id>.
C14_RequiredFieldsTwoTokens ==
    \A c \in Calls :
        req[c] # None =>
            LET r == req[c][1]
                f == RequiredFields(r)
            IN  IF r.op = "update_project"
                THEN /\ args[c][2] = "--project-id=" \o r.project_id
                     /\ \A i \in 1..Len(args[c]) :
                            args[c][i] # "--project-id"
                ELSE /\ Len(args[c]) >= 2 * Len(f) + 1
                     /\ \A i \in 1..Len(f) :
                            /\ args[c][2 * i] = f[i][1]
                            /\ args[c][2 * i + 1] = f[i][2]

\* A model request whose model name looks like a flag, and an update-project
\* request.
C14_Witness ==
    /\ \E c \in Calls :
           /\ req[c] # None
           /\ req[c][1].op = "get_model_details"
           /\ req[c][1].model = "--from"
    /\ \E c \in Calls :
           /\ req[c] # None
           /\ req[c][1].op = "update_project"

\* The value v of S for which tok is flag followed by v, if there is one.
Unjoin(flag, tok, S) ==
    IF \E v \in S : tok = flag \o v
    THEN Some(CHOOSE v \in S : tok = flag \o v)
    ELSE None

\* The value of the optional field `flag` among the tokens from..Len(a).
FindOpt(flag, a, from, S) ==
    IF \E i \in from..Len(a) : Unjoin(flag, a[i], S) # None
    THEN Unjoin(flag, a[CHOOSE i \in from..Len(a) :
                            Unjoin(flag, a[i], S) # None], S)
    ELSE None

FindBool(flag, a, from) ==
    IF \E i \in from..Len(a) : a[i] = flag \o "1" THEN Some(TRUE)
    ELSE IF \E i \in from..Len(a) : a[i] = flag \o "0" THEN Some(FALSE)
    ELSE None

\* The engine's reading of a token sequence: the keyword picks the
\* operation, required values are read at their positions, optional values
\* from the joined tokens that follow.
Decode(a) ==
    CASE a[1] = "dashboard" ->
             [op |-> "get_dashboard_bundle", from |-> a[3], to |-> a[5],
              refresh |-> (a[7] = "1"), granularity |-> a[9],
              project_id |-> FindOpt("--project-id=", a, 10, EncProjectIds)]
      [] a[1] = "day" ->
             [op |-> "get_day_details", date |-> a[3],
              project_id |-> FindOpt("--project-id=", a, 4, EncProjectIds)]
      [] a[1] = "model" ->
             [op |-> "get_model_details", model |-> a[3], from |-> a[5],
              to |-> a[7],
              project_id |-> FindOpt("--project-id=", a, 8, EncProjectIds)]
      [] a[1] = "session" ->
             [op |-> "get_session_details", session_id |-> a[3],
              project_id |-> FindOpt("--project-id=", a, 4, EncProjectIds)]
      [] a[1] = "limits" ->
             [op |-> "get_limit_resets", from |-> a[3], to |-> a[5]]
      [] a[1] = "export-png" ->
             [op |-> "export_png_report", from |-> a[3], to |-> a[5]]
      [] a[1] = "projects" -> [op |-> "get_projects"]
      [] a[1] = "update-project" ->
             [op |-> "update_project",
              project_id |-> Unjoin("--project-id=", a[2], EncProjectIds)[1],
              name |-> FindOpt("--name=", a, 3, EncNames),
              description |-> FindOpt("--description=", a, 3,
                                      EncDescriptions),
              visible |-> FindBool("--visible=", a, 3)]

\* C15: encoding is deterministic and injective: two requests in flight have
\* the same token sequence exactly when they are the same request, and
\* decoding the tokens of a request gives back its operation, every required
\* field and the presence and value of every optional field, also for values
\* that begin with '-' or look like a flag.
C15_EncodingInjective ==
    /\ \A c \in Calls : req[c] # None => Decode(args[c]) = req[c][1]
    /\ \A c, d \in Calls :
           (req[c] # None /\ req[d] # None) =>
               (args[c] = args[d] <=> req[c] = req[d])

\* Two update-project requests for the same project: one sets only the name
\* "x", the other only the description "x".
C15_Witness ==
    \E c, d \in Calls :
        /\ req[c] # None /\ req[d] # None
        /\ req[c][1].op = "update_project"
        /\ req[d][1].op = "update_project"
        /\ req[c][1].project_id = req[d][1].project_id
        /\ req[c][1].name = Some("x") /\ req[c][1].description = None
        /\ req[d][1].name = None /\ req[d][1].description = Some("x")
        /\ req[c][1].visible = req[d][1].visible

\* ------------------------------------------------------ bridge, continued
\* C17: every launch attempt of a call uses the command line: the
\* candidate's program (python, python3, uv), the candidate's prefix
\* arguments (none, none, run python), -m, command_center.tauri_api, then the
\* call's encoded tokens unchanged and in order; all attempts of a call pass
\* the same encoded tokens.
C17_CommandLine ==
    \A c \in Calls :
        LET Program == <<"python", "python3", "uv">>
            Prefix == << <<>>, <<>>, <<"run", "python">> >>
            Line(i) == [program |-> Program[i],
                        argv |-> Prefix[i]
                                 \o <<"-m", "command_center.tauri_api">>
                                 \o args[c]]
        IN  /\ \A i \in DOMAIN attempts[c] : attempts[c][i].command = Line(i)
            /\ pc[c] = "wait" => child[c] = Some(Line(Len(attempts[c]) + 1))
            /\ req[c] # None => args[c][1] = EngineKeyword(req[c][1].op)

\* The third candidate runs an update-project command of four tokens after
\* the first two candidates were attempted.
C17_Witness ==
    \E c \in Calls :
        /\ pc[c] = "wait"
        /\ Len(attempts[c]) = 2
        /\ Len(args[c]) = 4
        /\ args[c][1] = "update-project"

\* C18: a call that has returned holds success if and only if one of its
\* attempts started, exited 0 and printed valid JSON; the value returned is
\* the JSON of the first such candidate in priority order, every candidate
\* before it was attempted and failed, and no candidate after it was
\* attempted.  A call that has not returned has no such attempt.
C18_SuccessIffFirstGoodCandidate ==
    \A c \in Calls :
        LET a == attempts[c]
            good == {i \in DOMAIN a : Succeeded(a[i])}
        IN  /\ pc[c] # "done" => good = {}
            /\ pc[c] = "done" =>
                   /\ IsOk(c) <=> good # {}
                   /\ IsErr(c) <=> good = {}
                   /\ good # {} =>
                          LET f == CHOOSE i \in good : \A j \in good : i <= j
                          IN  /\ f = Len(a)
                              /\ good = {f}
                              /\ \A i \in 1..(f - 1) :
                                     a[i].python_cmd = python_commands[i]
                              /\ a[f].python_cmd = python_commands[f]
                              /\ result[c][1].value =
                                     from_str(from_utf8_lossy(
                                         a[f].output.stdout)).value
                              /\ result[c][1].value.type = "Number"

\* The third candidate succeeded after a launch failure and a failed run.
C18_Witness ==
    \E c \in Calls :
        /\ IsOk(c)
        /\ Len(attempts[c]) = 3
        /\ ~attempts[c][1].started
        /\ ExitedNonZero(attempts[c][2])

\* The message the code records for an outcome of the last candidate.
LastCandidateMessage(att) ==
    LET uv == <<"uv", " ", "run", " ", "python">>
    IN  IF ~att.started
        THEN <<"Failed to execute ">> \o uv \o <<": ", att.ioerr>>
        ELSE IF att.output.code # 0
        THEN <<"Python error (">> \o uv \o <<"): ">>
             \o from_utf8_lossy(att.output.stderr)
        ELSE <<"JSON parse error: ">>
             \o from_str(from_utf8_lossy(att.output.stdout)).err
             \o <<" | stdout: ">> \o from_utf8_lossy(att.output.stdout)

\* C19: whenever a call returns a failure, all three candidates were
\* attempted and the returned error is exactly the message recorded for the
\* last candidate, "uv run python", whatever its kind; the messages recorded
\* for python and python3 do not appear in it, and when the last candidate
\* failed to launch the stderr text of an earlier engine run does not appear
\* in it.
C19_OnlyLastErrorReturned ==
    \A c \in Calls :
        IsErr(c) =>
            LET a == attempts[c]
                err == result[c][1].err
            IN  /\ Len(a) = 3
                /\ \A i \in 1..3 : a[i].python_cmd = python_commands[i]
                /\ err = LastCandidateMessage(a[3])
                /\ err = last_error[c]
                /\ \A name \in {"python", "python3"} :
                       /\ ~IsSub(<<"Failed to execute ", name, ": ">>, err)
                       /\ ~IsSub(<<"Python error (", name, "): ">>, err)
                /\ ~a[3].started =>
                       \A i \in 1..2 :
                           (ExitedNonZero(a[i]) /\ a[i].output.stderr # <<>>)
                               => ~IsSub(from_utf8_lossy(a[i].output.stderr),
                                         err)

\* A call failed with the launch error of uv after python had exited
\* non-zero with stderr X.
C19_Witness ==
    \E c \in Calls :
        /\ IsErr(c)
        /\ ExitedNonZero(attempts[c][1])
        /\ attempts[c][1].output.stderr = <<88>>
        /\ ~attempts[c][3].started

\* -------------------------------------------------------------- concurrency
\* Everything call c holds.
Locals(c) == <<pc[c], req[c], args[c], idx[c], last_error[c], child[c],
               attempts[c], result[c]>>

\* What a call's own launches determine: the result of a call whose attempts
\* are a.
ResultOf(a) ==
    IF a # <<>> /\ Succeeded(a[Len(a)])
    THEN Some(Ok(from_str(from_utf8_lossy(a[Len(a)].output.stdout)).value))
    ELSE IF Len(a) = 3 THEN Some(Err(LastCandidateMessage(a[3])))
    ELSE None

\* C16: calls share no state.  Every call starts at the first candidate with
\* empty locals whatever the other call holds; a step of one call leaves
\* everything the other call holds unchanged; and under every interleaving
\* the attempts of a call are the candidates in order on the call's own args
\* and its result is the one its own launch outcomes determine.
C16_CallsIndependent ==
    /\ [][\A c \in Calls :
              /\ (pc[c] = "idle" /\ pc'[c] # "idle") =>
                     /\ pc'[c] = "loop"
                     /\ idx'[c] = 1
                     /\ last_error'[c] = <<>>
                     /\ attempts'[c] = <<>>
                     /\ result'[c] = None
              /\ Locals(c)' # Locals(c) =>
                     \A d \in Calls \ {c} : Locals(d)' = Locals(d)]_vars
    /\ [](\A c \in Calls :
              /\ \A i \in DOMAIN attempts[c] :
                     attempts[c][i].command
                         = command(python_commands[i], args[c])
              /\ pc[c] \in {"loop", "wait"} => idx[c] = Len(attempts[c]) + 1
              /\ pc[c] # "idle" => result[c] = ResultOf(attempts[c]))

\* One call runs its first candidate while the other, after two failures,
\* runs its third.
C16_Witness ==
    \E c, d \in Calls :
        /\ c # d
        /\ pc[c] = "wait" /\ idx[c] = 1
        /\ pc[d] = "wait" /\ idx[d] = 3
====
